---- MODULE Spec2Model ----
(***************************************************************************)
(* BlueGuard AI prediction service (Backend/ml_service): the predictors,   *)
(* the comprehensive threat analysis and its helpers, the HTTP routes and  *)
(* POST /retrain, in the full variant (ai_service.py) and the simplified   *)
(* variant (ai_service_simple.py).                                         *)
(*                                                                         *)
(* Numbers.  Surge heights are integers in quarter-metres (0.5 m = 2,      *)
(* 1.0 m = 4, 2.0 m = 8).  Confidences are integers in thousandths.        *)
(* A Python dict is a function whose DOMAIN is its key set; a dict that    *)
(* keeps insertion order (the `threats` mapping) is a sequence of          *)
(* [key, data] entries with distinct keys.                                 *)
(***************************************************************************)
EXTENDS Integers, Sequences, FiniteSets, TLC

VARIABLES
    variant,        \* "full" (ai_service.py) or "simple" (ai_service_simple.py)
    models_loaded,  \* predictor.models_loaded
    models,         \* key set of the model dict the predictors look into
    pc,             \* position of the request being served
    input_data,     \* the request body handed to comprehensive_threat_analysis
    results,        \* the `results` dict of comprehensive_threat_analysis
    raised,         \* TRUE when an exception left comprehensive_threat_analysis
    calls,          \* the predictors the analysis has invoked, in order, and what
                    \* the model collaborator of each did
    core_in,        \* a direct call of one of the helper functions: its arguments
    core_out,       \* ... and what it returned
    response,       \* the HTTP response to the request served last: route, status
                    \* and JSON body; empty while a request is in service
    artefacts,      \* the training run the installed models, scalers and encoders
                    \* come from: "startup", or "retrain" once POST /retrain has
                    \* replaced any of them
    store,          \* the dicts the predictors read, by training run: models and
                    \* scalers map a name to the run that fitted the object
    trainer,        \* the POST /retrain in service: its position, its run and
                    \* the dicts of the trainer it created
    reader          \* a predict_storm_surge in service: its position and the
                    \* locals `scaler` and `model`

raceVars == <<store, trainer, reader>>

vars == <<variant, models_loaded, models, pc, input_data, results, raised, calls,
          core_in, core_out, response, artefacts, raceVars>>

(***************************************************************************)
(* Bounds of the model.                                                    *)
(***************************************************************************)
MaxNeg == 2        \* model outputs go down to -MaxNeg quarter-metres
MaxHeight == 10    \* ... and up to MaxHeight quarter-metres (2.5 m)

MaxHistory == 150  \* the longest history a request carries, in hourly observations

Heights == (0 - MaxNeg)..MaxHeight

Variants == {"full", "simple"}

(***************************************************************************)
(* dict helpers                                                            *)
(***************************************************************************)
Has(d, k) == k \in DOMAIN d

Get(d, k, default) == IF k \in DOMAIN d THEN d[k] ELSE default

NoResult == <<>>   \* the empty dict / "nothing yet"

(***************************************************************************)
(* _categorize_surge_risk                                                  *)
(***************************************************************************)
\* mutant: the boundaries given to the lower label
CategorizeBoundariesLow(surge_height) ==
    IF surge_height <= 2 THEN "low"
    ELSE IF surge_height <= 4 THEN "medium"
    ELSE IF surge_height <= 8 THEN "high"
    ELSE "critical"

_categorize_surge_risk(surge_height) ==
    IF surge_height < 2 THEN "low"             \* < 0.5
    ELSE IF surge_height < 4 THEN "medium"     \* < 1.0
    ELSE IF surge_height < 8 THEN "high"       \* < 2.0
    ELSE "critical"

(***************************************************************************)
(* _calculate_overall_risk                                                 *)
(***************************************************************************)
\* mutant: `severe` left out of the table
RiskScoresWithoutSevere ==
    [low |-> 1, minimal |-> 1, medium |-> 2, moderate |-> 2,
     high |-> 3, significant |-> 3, critical |-> 4]

risk_scores ==
    [low |-> 1, minimal |-> 1, medium |-> 2, moderate |-> 2,
     high |-> 3, significant |-> 3, critical |-> 4, severe |-> 4]

\* mutant: the check for the `error` key forgotten
EntryScoresOfErrored(threat_data) ==
    IF Has(threat_data, "risk_level")
    THEN <<Get(risk_scores, threat_data.risk_level, 2)>>
    ELSE IF Has(threat_data, "threat_level")
         THEN <<Get(risk_scores, threat_data.threat_level, 2)>>
         ELSE <<>>

\* mutant: a result without a label scored as medium
EntryScoresDefaultLabel(threat_data) ==
    IF ~Has(threat_data, "error")
    THEN IF Has(threat_data, "risk_level")
         THEN <<Get(risk_scores, threat_data.risk_level, 2)>>
         ELSE <<Get(risk_scores, Get(threat_data, "threat_level", "medium"), 2)>>
    ELSE <<>>

\* the body of the loop: what one entry appends to `scores`
EntryScores(threat_data) ==
    IF ~Has(threat_data, "error")
    THEN IF Has(threat_data, "risk_level")
         THEN <<Get(risk_scores, threat_data.risk_level, 2)>>
         ELSE IF Has(threat_data, "threat_level")
              THEN <<Get(risk_scores, threat_data.threat_level, 2)>>
              ELSE <<>>
    ELSE <<>>

RECURSIVE CollectScores(_)
CollectScores(threats) ==
    IF threats = <<>> THEN <<>>
    ELSE EntryScores(Head(threats).data) \o CollectScores(Tail(threats))

RECURSIVE SumSeq(_)
SumSeq(s) == IF s = <<>> THEN 0 ELSE Head(s) + SumSeq(Tail(s))

\* mutant: the mean rounded up to a rank before it is classified
ClassifyCeilingOfMean(total, n) ==
    IF total <= n THEN "low"
    ELSE IF total <= 2 * n THEN "medium"
    ELSE IF total <= 3 * n THEN "high"
    ELSE "critical"

\* mutant: the comparison with 2.5 made before the comparison with 1.5
ClassifyMeanUnordered(total, n) ==
    IF 2 * total < 5 * n THEN "medium"
    ELSE IF 2 * total < 3 * n THEN "low"
    ELSE IF 2 * total < 7 * n THEN "high"
    ELSE "critical"

\* avg_score = sum / n is compared with 1.5, 2.5 and 3.5: sum/n < k/2 iff 2*sum < k*n
ClassifyMean(total, n) ==
    IF 2 * total < 3 * n THEN "low"
    ELSE IF 2 * total < 5 * n THEN "medium"
    ELSE IF 2 * total < 7 * n THEN "high"
    ELSE "critical"

RECURSIVE MaxSeq(_)
MaxSeq(s) == IF s = <<>> THEN 0 ELSE IF Head(s) > MaxSeq(Tail(s)) THEN Head(s) ELSE MaxSeq(Tail(s))

\* mutant: the worst category decides instead of the mean
OverallRiskByMaximum(threats) ==
    LET scores == CollectScores(threats)
    IN  IF scores = <<>> THEN "unknown"
        ELSE ClassifyMean(MaxSeq(scores), 1)

_calculate_overall_risk(threats) ==
    LET scores == CollectScores(threats)
    IN  IF scores = <<>> THEN "unknown"
        ELSE ClassifyMean(SumSeq(scores), Len(scores))

(***************************************************************************)
(* _generate_recommendations                                               *)
(***************************************************************************)
RecSurgeWarning == "Issue storm surge warning - evacuate low-lying areas"
RecSurgeTeams == "Deploy emergency response teams"
RecSurgeMonitor == "Monitor coastal conditions closely"
RecErosionProtect == "Implement emergency coastal protection measures"
RecErosionRestrict == "Restrict beach access in high-risk areas"
RecCarbonProtect == "Activate blue carbon ecosystem protection protocols"
RecCarbonTeam == "Deploy rapid response conservation team"
RecRoutine == "Continue routine monitoring"

\* mutant: the secondary strings appended by both variants
SecondaryInBothVariants(v, rec) == <<rec>>

\* the secondary strings only the full variant appends
Secondary(v, rec) == IF v = "full" THEN <<rec>> ELSE <<>>

\* mutant: the surge thresholds compared with >= instead of >
EntryRecommendationsInclusive(v, threat_type, threat_data) ==
    IF Has(threat_data, "error") THEN <<>>
    ELSE IF threat_type = "storm_surge"
    THEN LET surge_height == Get(threat_data, "surge_height", 0)
         IN  IF surge_height >= 4
             THEN <<RecSurgeWarning>> \o Secondary(v, RecSurgeTeams)
             ELSE IF surge_height >= 2
                  THEN <<RecSurgeMonitor>>
                  ELSE <<>>
    ELSE IF threat_type = "coastal_erosion"
    THEN IF Get(threat_data, "risk_level", "low") \in {"high", "critical"}
         THEN <<RecErosionProtect>> \o Secondary(v, RecErosionRestrict)
         ELSE <<>>
    ELSE IF threat_type = "blue_carbon"
    THEN IF Get(threat_data, "threat_level", "minimal") \in {"significant", "severe"}
         THEN <<RecCarbonProtect>> \o Secondary(v, RecCarbonTeam)
         ELSE <<>>
    ELSE <<>>

\* the body of the loop: what one entry appends to `recommendations`
EntryRecommendations(v, threat_type, threat_data) ==
    IF Has(threat_data, "error") THEN <<>>
    ELSE IF threat_type = "storm_surge"
    THEN LET surge_height == Get(threat_data, "surge_height", 0)
         IN  IF surge_height > 4                       \* > 1.0
             THEN <<RecSurgeWarning>> \o Secondary(v, RecSurgeTeams)
             ELSE IF surge_height > 2                  \* > 0.5
                  THEN <<RecSurgeMonitor>>
                  ELSE <<>>
    ELSE IF threat_type = "coastal_erosion"
    THEN IF Get(threat_data, "risk_level", "low") \in {"high", "critical"}
         THEN <<RecErosionProtect>> \o Secondary(v, RecErosionRestrict)
         ELSE <<>>
    ELSE IF threat_type = "blue_carbon"
    THEN IF Get(threat_data, "threat_level", "minimal") \in {"significant", "severe"}
         THEN <<RecCarbonProtect>> \o Secondary(v, RecCarbonTeam)
         ELSE <<>>
    ELSE <<>>

\* mutant: the mapping walked from its last entry to its first
RECURSIVE LoopRecommendationsBackwards(_, _)
LoopRecommendationsBackwards(v, threats) ==
    IF threats = <<>> THEN <<>>
    ELSE LoopRecommendationsBackwards(v, Tail(threats))
             \o EntryRecommendations(v, Head(threats).key, Head(threats).data)

RECURSIVE LoopRecommendations(_, _)
LoopRecommendations(v, threats) ==
    IF threats = <<>> THEN <<>>
    ELSE EntryRecommendations(v, Head(threats).key, Head(threats).data)
             \o LoopRecommendations(v, Tail(threats))

\* mutant: the fallback appended without looking at the list
GenerateRecommendationsAlwaysRoutine(v, threats) ==
    LET recommendations == LoopRecommendations(v, threats)
    IN  IF v = "simple"
        THEN Append(recommendations, RecRoutine)
        ELSE recommendations

_generate_recommendations(v, threats) ==
    LET recommendations == LoopRecommendations(v, threats)
    IN  IF v = "simple" /\ recommendations = <<>>
        THEN <<RecRoutine>>
        ELSE recommendations

(***************************************************************************)
(* The predictor's state after construction (load_models).                 *)
(***************************************************************************)
FullModels == {"storm_surge", "coastal_erosion", "blue_carbon_threat", "weather_prediction"}
SimpleModels == {"storm_surge", "coastal_erosion", "blue_carbon_threat"}

\* BlueGuardAITrainer.load_models loads every model file that exists and answers
\* True unless a load raises; a raise leaves the models loaded so far.  Then
\* BlueGuardPredictor.load_models trains when the answer was False (a failing
\* training or save leaves models_loaded False) and sets models_loaded.
FullLoadOutcomes ==
    {[models_loaded |-> TRUE, models |-> found] : found \in SUBSET FullModels}
    \cup {[models_loaded |-> TRUE, models |-> FullModels]}
    \cup {[models_loaded |-> FALSE, models |-> partial] : partial \in SUBSET FullModels}

\* load_saved_models answers True only with all three model files loaded; a load
\* that raises part-way keeps what it stored.  train_models replaces the dicts
\* or raises, and load_models then leaves models_loaded False.
SimpleLoadOutcomes ==
    {[models_loaded |-> TRUE, models |-> SimpleModels]}
    \cup {[models_loaded |-> FALSE, models |-> partial] :
            partial \in {{}, {"storm_surge"}, {"storm_surge", "coastal_erosion"},
                         SimpleModels}}

LoadOutcomes(v) == IF v = "full" THEN FullLoadOutcomes ELSE SimpleLoadOutcomes

\* the guard at the top of each predictor
ModelAvailable(v, loaded, have, name) ==
    IF v = "full" THEN loaded /\ name \in have ELSE name \in have

(***************************************************************************)
(* Request values.  A JSON value is tagged with its kind: "mapping" (a     *)
(* dict, its content in `data`), "list" (its content in `items`), "null"   *)
(* and "number".                                                           *)
(***************************************************************************)
Mapping(d) == [kind |-> "mapping", data |-> d]
List(s) == [kind |-> "list", items |-> s]
Null == [kind |-> "null"]
Number == [kind |-> "number"]

Max(a, b) == IF a > b THEN a ELSE b
Min(a, b) == IF a < b THEN a ELSE b

PredictionFailed == "prediction failed"    \* str(e) of whatever was raised

(***************************************************************************)
(* predict_storm_surge.  `out` is what the model collaborator does:        *)
(* [raises |-> TRUE] or [raises |-> FALSE, value |-> height].              *)
(***************************************************************************)
\* mutant: the magnitude reported instead of the height clamped at 0
ReportedSurgeMagnitude(v, surge_height) ==
    IF v = "simple" THEN Max(surge_height, 0 - surge_height) ELSE surge_height

\* the surge_height the result reports for the model's output
ReportedSurgeHeight(v, surge_height) ==
    IF v = "simple" THEN Max(0, surge_height) ELSE surge_height

\* min(0.95, 0.6 + (wind_speed / 50) * 0.3), in thousandths
SurgeConfidence(weather_data) ==
    Min(950, 600 + 6 * Get(weather_data, "wind_speed", 10))

predict_storm_surge(v, loaded, have, weather, out) ==
    IF ~ModelAvailable(v, loaded, have, "storm_surge")
    THEN [error |-> "Storm surge model not available", surge_height |-> 0]
    ELSE IF weather.kind # "mapping" \/ out.raises
    THEN [error |-> PredictionFailed, surge_height |-> 0]
    ELSE [surge_height |-> ReportedSurgeHeight(v, out.value),
          confidence |-> SurgeConfidence(weather.data),
          risk_level |-> _categorize_surge_risk(out.value)]

(***************************************************************************)
(* predict_coastal_erosion.  out: [raises], or [raises |-> FALSE,          *)
(* value |-> label, has_proba |-> BOOLEAN, proba |-> max probability].     *)
(* The `probabilities` dict is kept as a token: "levels" for the dict over *)
(* the four level names, "none" for the empty dict.                        *)
(***************************************************************************)
\* mutant: the except clause answers the lowest level instead of "unknown"
PredictCoastalErosionLowOnFailure(v, loaded, have, coastal, out) ==
    IF ~ModelAvailable(v, loaded, have, "coastal_erosion")
    THEN [error |-> "Erosion model not available", risk_level |-> "unknown"]
    ELSE IF coastal.kind # "mapping" \/ out.raises
    THEN [error |-> PredictionFailed, risk_level |-> "low"]
    ELSE IF out.has_proba
    THEN [risk_level |-> out.value, confidence |-> out.proba, probabilities |-> "levels"]
    ELSE IF v = "full"
    THEN [error |-> PredictionFailed, risk_level |-> "low"]
    ELSE [risk_level |-> out.value, confidence |-> 700, probabilities |-> "none"]

predict_coastal_erosion(v, loaded, have, coastal, out) ==
    IF ~ModelAvailable(v, loaded, have, "coastal_erosion")
    THEN [error |-> "Erosion model not available", risk_level |-> "unknown"]
    ELSE IF coastal.kind # "mapping" \/ out.raises
    THEN [error |-> PredictionFailed, risk_level |-> "unknown"]
    ELSE IF out.has_proba
    THEN [risk_level |-> out.value, confidence |-> out.proba, probabilities |-> "levels"]
    ELSE IF v = "full"
    THEN [error |-> PredictionFailed, risk_level |-> "unknown"]  \* no predict_proba
    ELSE [risk_level |-> out.value, confidence |-> 700, probabilities |-> "none"]

(***************************************************************************)
(* _estimate_carbon_loss and predict_blue_carbon_threat.  carbon_storage   *)
(* is [num |-> TRUE, val |-> n] or [num |-> FALSE] (a string, a list, null)*)
(***************************************************************************)
\* the loss rates 0.05, 0.15, 0.35 and 0.60 in thousandths
loss_multipliers == [minimal |-> 50, moderate |-> 150, significant |-> 350, severe |-> 600]

\* mutant: the recovery time taken from the stored carbon instead of the loss
EstimateRecoveryFromBase(threat_level, ecosystem_data) ==
    LET base_carbon == Get(ecosystem_data, "carbon_storage", [num |-> TRUE, val |-> 100])
        loss_rate == Get(loss_multipliers, threat_level, 250)
    IN  IF ~base_carbon.num THEN [raises |-> TRUE]
        ELSE LET carbon_loss == base_carbon.val * loss_rate
             IN  [raises |-> FALSE,
                  value |-> [potential_loss_tons_co2 |-> carbon_loss,
                             economic_value_usd |-> carbon_loss * 50,
                             recovery_time_years |-> (base_carbon.val * 1000) \div 10]]

\* base_carbon is in tons; the loss, the dollars and the years are in thousandths.
\* base_carbon * loss_rate raises TypeError for a base that is no number.
_estimate_carbon_loss(threat_level, ecosystem_data) ==
    LET base_carbon == Get(ecosystem_data, "carbon_storage", [num |-> TRUE, val |-> 100])
        loss_rate == Get(loss_multipliers, threat_level, 250)
    IN  IF ~base_carbon.num THEN [raises |-> TRUE]
        ELSE LET carbon_loss == base_carbon.val * loss_rate
             IN  [raises |-> FALSE,
                  value |-> [potential_loss_tons_co2 |-> carbon_loss,
                             economic_value_usd |-> carbon_loss * 50,
                             recovery_time_years |-> carbon_loss \div 10]]

\* mutant: the except clause answers the sentinel without the `error` key
PredictBlueCarbonUnmarked(v, loaded, have, ecosystem, out) ==
    IF ~ModelAvailable(v, loaded, have, "blue_carbon_threat")
    THEN [error |-> "Blue carbon model not available", threat_level |-> "unknown"]
    ELSE IF ecosystem.kind # "mapping" \/ out.raises
    THEN [threat_level |-> "unknown"]
    ELSE IF ~out.has_proba /\ v = "full"
    THEN [threat_level |-> "unknown"]
    ELSE LET carbon_loss == _estimate_carbon_loss(out.value, ecosystem.data)
         IN  IF carbon_loss.raises
             THEN [threat_level |-> "unknown"]
             ELSE [threat_level |-> out.value,
                   confidence |-> IF out.has_proba THEN out.proba ELSE 700,
                   probabilities |-> IF out.has_proba THEN "levels" ELSE "none",
                   carbon_loss_estimate |-> carbon_loss.value]

predict_blue_carbon_threat(v, loaded, have, ecosystem, out) ==
    IF ~ModelAvailable(v, loaded, have, "blue_carbon_threat")
    THEN [error |-> "Blue carbon model not available", threat_level |-> "unknown"]
    ELSE IF ecosystem.kind # "mapping" \/ out.raises
    THEN [error |-> PredictionFailed, threat_level |-> "unknown"]
    ELSE IF ~out.has_proba /\ v = "full"
    THEN [error |-> PredictionFailed, threat_level |-> "unknown"]
    ELSE LET carbon_loss == _estimate_carbon_loss(out.value, ecosystem.data)
         IN  IF carbon_loss.raises
             THEN [error |-> PredictionFailed, threat_level |-> "unknown"]
             ELSE [threat_level |-> out.value,
                   confidence |-> IF out.has_proba THEN out.proba ELSE 700,
                   probabilities |-> IF out.has_proba THEN "levels" ELSE "none",
                   carbon_loss_estimate |-> carbon_loss.value]

(***************************************************************************)
(* predict_weather_sequence.  A history is a list of observations; the     *)
(* full variant pads the caller's list in place to 144 entries with the    *)
(* recent average before it calls the model.  Timestamps and temperatures  *)
(* are left out of the forecast points.                                    *)
(***************************************************************************)
WindowHours == 144
ForecastHours == 24

RECURSIVE PadFront(_, _)
PadFront(historical_data, n) ==
    IF Len(historical_data) < n
    THEN PadFront(<<"recent_avg">> \o historical_data, n)
    ELSE historical_data

\* the list the caller passed, as the call leaves it
HistoryAfter(v, loaded, have, history) ==
    IF v = "full" /\ ModelAvailable(v, loaded, have, "weather_prediction")
       /\ history.kind = "list"
    THEN List(PadFront(history.items, WindowHours))
    ELSE history

\* historical_data[-144:] of the padded list: the rows of the model's input
ModelWindow(historical_data) ==
    LET padded == PadFront(historical_data, WindowHours)
    IN  SubSeq(padded, Len(padded) - WindowHours + 1, Len(padded))

\* mutant: enumerate() left at its default start
ForecastPointsFromZero(n) == [i \in 1..n |-> [hour_offset |-> i - 1]]

\* enumerate(zip(timestamps, predictions), 1)
ForecastPoints(n) == [i \in 1..n |-> [hour_offset |-> i]]

predict_weather_sequence(v, loaded, have, history, out) ==
    IF v = "full"
    THEN IF ~ModelAvailable(v, loaded, have, "weather_prediction")
         THEN [error |-> "Weather prediction model not available"]
         ELSE IF history.kind # "list" \/ out.raises
         THEN [error |-> PredictionFailed]
         ELSE [predictions |-> ForecastPoints(Min(ForecastHours, out.value)),
               confidence |-> 800]
    ELSE IF history.kind = "null" \/ history.kind = "list"
         THEN [predictions |-> ForecastPoints(ForecastHours), confidence |-> 600]
         ELSE [error |-> PredictionFailed]   \* len() of a number

(***************************************************************************)
(* comprehensive_threat_analysis, one step per statement of its body.      *)
(***************************************************************************)
SectionNames == {"weather", "coastal", "ecosystem", "historical_weather"}

\* mutant: a result that carries an error is not stored
PutUnlessErrored(threats, key, data) ==
    IF Has(data, "error") THEN threats
    ELSE Append(threats, [key |-> key, data |-> data])

\* results['threats'][key] = data
Put(threats, key, data) ==
    IF \E i \in 1..Len(threats) : threats[i].key = key
    THEN [i \in 1..Len(threats) |->
            IF threats[i].key = key THEN [key |-> key, data |-> data] ELSE threats[i]]
    ELSE Append(threats, [key |-> key, data |-> data])

\* the dict built before the try block
InitialResults(v) ==
    [timestamp |-> "now", overall_risk |-> "low",
     confidence |-> IF v = "full" THEN 800 ELSE 700, threats |-> <<>>]

\* `section in input_data` raises TypeError for null and for a number
MembershipRaises(input) == input.kind \in {"null", "number"}

\* `section in input_data`, for a dict and for a list
Contains(input, section) ==
    IF input.kind = "mapping" THEN section \in DOMAIN input.data
    ELSE \E i \in 1..Len(input.items) : input.items[i] = section

\* `section in input_data` or `input_data[section]` raises inside the try block
SectionRaises(input, section) ==
    \/ MembershipRaises(input)
    \/ input.kind = "list" /\ Contains(input, section)

SectionPresent(input, section) == input.kind = "mapping" /\ Contains(input, section)

SectionAbsent(input, section) == ~MembershipRaises(input) /\ ~Contains(input, section)

\* mutant: no except clause, the exception leaves the function
OrchestratorReraise(res) == [results |-> res, raised |-> TRUE]

\* mutant: the handler also marks the overall risk as unknown
OrchestratorExceptUnknown(res) ==
    [results |-> [error |-> "analysis failed", overall_risk |-> "unknown"] @@ res,
     raised |-> FALSE]

\* except Exception as e: results['error'] = str(e); return results
OrchestratorExcept(res) ==
    [results |-> [error |-> "analysis failed"] @@ res, raised |-> FALSE]

\* what the model collaborator of a predictor did in a call: "not_called" when
\* the predictor returned or failed before it reached the model (`reached` says
\* whether the feature preparation got through), else "raised" or "returned".
\* The full variant calls predict_proba without asking whether the model has it.
\* With "returned" goes the value the model predicted.
Collaborator(v, loaded, have, name, reached, out) ==
    IF ~(ModelAvailable(v, loaded, have, name) /\ reached)
    THEN [collaborator |-> "not_called"]
    ELSE IF out.raises THEN [collaborator |-> "raised"]
    ELSE IF v = "full" /\ Has(out, "has_proba") /\ ~out.has_proba
    THEN [collaborator |-> "raised"]
    ELSE [collaborator |-> "returned", value |-> out.value]

\* what the call of the forecast model adds to the record of the call: the
\* number of rows of the sequence the model was given
WindowSeen(v, loaded, have, history) ==
    IF v = "full" /\ ModelAvailable(v, loaded, have, "weather_prediction")
       /\ history.kind = "list"
    THEN [window |-> Len(ModelWindow(history.items))]
    ELSE <<>>

\* what the model collaborators may do when called
ErosionLabels == {"low", "medium", "high", "critical", "other"}
ThreatLabels == {"minimal", "moderate", "significant", "severe", "other"}

SurgeOutcomes ==
    {[raises |-> TRUE]} \cup {[raises |-> FALSE, value |-> h] : h \in Heights}

ClassifierOutcomes(labels) ==
    {[raises |-> TRUE]}
    \cup {[raises |-> FALSE, value |-> l, has_proba |-> b, proba |-> 900] :
            l \in labels, b \in BOOLEAN}

ForecastOutcomes == {[raises |-> TRUE], [raises |-> FALSE, value |-> ForecastHours]}

\* the request bodies
WeatherInputs == {Mapping(<<>>), Null}
CoastalInputs == {Mapping(<<>>), Null}
EcosystemInputs == {Mapping(<<>>), Null}
HistoryInputs == {List(<<>>), List(<<"obs", "obs", "obs">>), Null, Number}

SectionInputs(section) ==
    CASE section = "weather" -> WeatherInputs
      [] section = "coastal" -> CoastalInputs
      [] section = "ecosystem" -> EcosystemInputs
      [] section = "historical_weather" -> HistoryInputs

MappingInputs ==
    UNION {{Mapping(d) : d \in {f \in [present -> UNION {SectionInputs(s) : s \in present}] :
                                   \A s \in present : f[s] \in SectionInputs(s)}} :
           present \in SUBSET SectionNames}

Inputs ==
    MappingInputs \cup {Null, Number, List(<<>>)} \cup {List(<<s>>) : s \in SectionNames}

\* no request is in service and the last response has left
Idle == pc = "idle" /\ response = NoResult

Request ==
    /\ Idle
    /\ \E input \in Inputs : input_data' = input
    /\ results' = InitialResults(variant)
    /\ raised' = FALSE
    /\ calls' = <<>>
    /\ pc' = "weather"
    /\ response' = NoResult
    /\ UNCHANGED <<variant, models_loaded, models, core_in, core_out, artefacts, raceVars>>

\* an exception inside the try block
Fail ==
    /\ results' = OrchestratorExcept(results).results
    /\ raised' = OrchestratorExcept(results).raised
    /\ pc' = "done"
    /\ UNCHANGED <<variant, models_loaded, models, input_data, calls, core_in, core_out, response, artefacts, raceVars>>

Skip(next) ==
    /\ pc' = next
    /\ UNCHANGED <<variant, models_loaded, models, input_data, results, raised, calls,
                   core_in, core_out, response, artefacts, raceVars>>

\* mutant: the predictor invoked a second time for the value that is stored
StoreInvokedTwice(predictor, call, key, data, next) ==
    /\ results' = [results EXCEPT !.threats = Put(@, key, data)]
    /\ calls' = Append(Append(calls, [predictor |-> predictor] @@ call),
                       [predictor |-> predictor] @@ call)
    /\ pc' = next
    /\ UNCHANGED <<variant, models_loaded, models, raised, core_in, core_out, response,
                   artefacts, raceVars>>

\* results['threats'][key] = self.predict_...(input_data[section])
Store(predictor, call, key, data, next) ==
    /\ results' = [results EXCEPT !.threats = Put(@, key, data)]
    /\ calls' = Append(calls, [predictor |-> predictor] @@ call)
    /\ pc' = next
    /\ UNCHANGED <<variant, models_loaded, models, raised, core_in, core_out, response, artefacts, raceVars>>

AnalyzeWeather ==
    /\ pc = "weather"
    /\ \/ SectionRaises(input_data, "weather") /\ Fail
       \/ SectionAbsent(input_data, "weather") /\ Skip("coastal")
       \/ /\ SectionPresent(input_data, "weather")
          /\ \E out \in SurgeOutcomes :
                Store("predict_storm_surge",
                      Collaborator(variant, models_loaded, models, "storm_surge",
                                   input_data.data.weather.kind = "mapping", out),
                      "storm_surge",
                      predict_storm_surge(variant, models_loaded, models,
                                          input_data.data.weather, out),
                      "coastal")
          /\ UNCHANGED input_data

AnalyzeCoastal ==
    /\ pc = "coastal"
    /\ \/ SectionRaises(input_data, "coastal") /\ Fail
       \/ SectionAbsent(input_data, "coastal") /\ Skip("ecosystem")
       \/ /\ SectionPresent(input_data, "coastal")
          /\ \E out \in ClassifierOutcomes(ErosionLabels) :
                Store("predict_coastal_erosion",
                      Collaborator(variant, models_loaded, models, "coastal_erosion",
                                   input_data.data.coastal.kind = "mapping", out),
                      "coastal_erosion",
                      predict_coastal_erosion(variant, models_loaded, models,
                                              input_data.data.coastal, out),
                      "ecosystem")
          /\ UNCHANGED input_data

AnalyzeEcosystem ==
    /\ pc = "ecosystem"
    /\ \/ SectionRaises(input_data, "ecosystem") /\ Fail
       \/ SectionAbsent(input_data, "ecosystem") /\ Skip("historical_weather")
       \/ /\ SectionPresent(input_data, "ecosystem")
          /\ \E out \in ClassifierOutcomes(ThreatLabels) :
                Store("predict_blue_carbon_threat",
                      Collaborator(variant, models_loaded, models, "blue_carbon_threat",
                                   input_data.data.ecosystem.kind = "mapping", out),
                      "blue_carbon",
                      predict_blue_carbon_threat(variant, models_loaded, models,
                                                 input_data.data.ecosystem, out),
                      "historical_weather")
          /\ UNCHANGED input_data

AnalyzeHistory ==
    /\ pc = "historical_weather"
    /\ \/ SectionRaises(input_data, "historical_weather") /\ Fail
       \/ SectionAbsent(input_data, "historical_weather") /\ Skip("aggregate")
       \/ /\ SectionPresent(input_data, "historical_weather")
          /\ \E out \in ForecastOutcomes :
                Store("predict_weather_sequence",
                      Collaborator(variant, models_loaded, models, "weather_prediction",
                                   variant = "full"
                                   /\ input_data.data.historical_weather.kind = "list", out)
                        @@ WindowSeen(variant, models_loaded, models,
                                      input_data.data.historical_weather),
                      "weather_forecast",
                      predict_weather_sequence(variant, models_loaded, models,
                                               input_data.data.historical_weather, out),
                      "aggregate")
          /\ input_data' = [input_data EXCEPT !.data.historical_weather =
                                HistoryAfter(variant, models_loaded, models, @)]

Aggregate ==
    /\ pc = "aggregate"
    /\ results' = [results EXCEPT !.overall_risk = _calculate_overall_risk(results.threats)]
    /\ pc' = "recommend"
    /\ UNCHANGED <<variant, models_loaded, models, input_data, raised, calls,
                   core_in, core_out, response, artefacts, raceVars>>

Recommend ==
    /\ pc = "recommend"
    /\ results' = [recommendations |-> _generate_recommendations(variant, results.threats)]
                      @@ results
    /\ pc' = "done"
    /\ UNCHANGED <<variant, models_loaded, models, input_data, raised, calls,
                   core_in, core_out, response, artefacts, raceVars>>

(***************************************************************************)
(* The HTTP routes.  Every handler is `try: data = request.get_json();     *)
(* result = predictor...(data); return jsonify(result)` with               *)
(* `except Exception as e: return jsonify({"error": str(e)}), 500`.        *)
(***************************************************************************)
\* a request body request.get_json() raises on (no JSON, wrong content type)
Unparsable == [kind |-> "unparsable"]

HandlerFailed == "handler failed"    \* str(e) of what the handler caught

\* a label the classifier answered that is none of the level names; the
\* trainers label-encode the target column, so it may be a numpy integer
LabelNotJson(d) ==
    \/ Has(d, "risk_level") /\ d.risk_level = "other"
    \/ Has(d, "threat_level") /\ d.threat_level = "other"

\* jsonify(result) may raise TypeError: a numpy integer is not JSON serializable
JsonifyMayRaise(result) ==
    \/ LabelNotJson(result)
    \/ /\ Has(result, "threats")
       /\ \E i \in 1..Len(result.threats) : LabelNotJson(result.threats[i].data)

\* except Exception as e: return jsonify({"error": str(e)}), 500
ErrorResponse(route) == [route |-> route, status |-> 500, body |-> [error |-> HandlerFailed]]

\* mutant: a result that carries an error is answered with status 500
RepliesErrorAsFailure(route, result) ==
    {[route |-> route, status |-> IF Has(result, "error") THEN 500 ELSE 200,
      body |-> result]}
    \cup (IF JsonifyMayRaise(result) THEN {ErrorResponse(route)} ELSE {})

\* return jsonify(result): status 200 whatever the result carries
Replies(route, result) ==
    {[route |-> route, status |-> 200, body |-> result]}
    \cup (IF JsonifyMayRaise(result) THEN {ErrorResponse(route)} ELSE {})

\* comprehensive_analysis: the analysis is handed to jsonify and the request ends
Respond ==
    /\ pc = "done"
    /\ pc' = "idle"
    /\ response' \in Replies("/analyze/comprehensive", results)
    /\ input_data' = NoResult
    /\ results' = NoResult
    /\ raised' = FALSE
    /\ calls' = <<>>
    /\ UNCHANGED <<variant, models_loaded, models, core_in, core_out, artefacts, raceVars>>

\* the request bodies of the prediction routes
WindSpeeds == {0 - 150, 0 - 100, 0, 50, 100}

WeatherBodies ==
    {Mapping(<<>>)} \cup {Mapping([wind_speed |-> w]) : w \in WindSpeeds}
    \cup {Null, List(<<>>), Number, Unparsable}

CoastalBodies == {Mapping(<<>>), Null, Unparsable}

\* carbon_storage as a number of tons, or as a JSON string, list or null
CarbonStorages == {[num |-> TRUE, val |-> c] : c \in {0, 100, 250}} \cup {[num |-> FALSE]}

EcosystemBodies ==
    {Mapping(<<>>)} \cup {Mapping([carbon_storage |-> c]) : c \in CarbonStorages}
    \cup {Null, Unparsable}

\* histories: empty, shorter than a day, shorter than the window, the window, longer
HistoryLengths == {0, 3, 30, WindowHours, MaxHistory}

RouteHistories ==
    {List([i \in 1..n |-> "obs"]) : n \in HistoryLengths} \cup {Null, Number}

ForecastBodies ==
    {Mapping(<<>>)} \cup {Mapping([historical_data |-> h]) : h \in RouteHistories}
    \cup {Null, List(<<>>), Unparsable}

\* one request served from its body to its response
Serve(body, log, replies) ==
    /\ input_data' = body
    /\ calls' = log
    /\ response' \in replies
    /\ UNCHANGED <<variant, models_loaded, models, pc, results, raised, core_in, core_out,
                   artefacts, raceVars>>

\* the route predict_storm_surge
PredictStormSurgeRoute ==
    /\ Idle
    /\ \E body \in WeatherBodies, out \in SurgeOutcomes :
           IF body = Unparsable
           THEN Serve(body, <<>>, {ErrorResponse("/predict/storm-surge")})
           ELSE Serve(body,
                      <<[predictor |-> "predict_storm_surge"]
                          @@ Collaborator(variant, models_loaded, models, "storm_surge",
                                          body.kind = "mapping", out)>>,
                      Replies("/predict/storm-surge",
                              predict_storm_surge(variant, models_loaded, models, body, out)))

\* the route predict_coastal_erosion
PredictCoastalErosionRoute ==
    /\ Idle
    /\ \E body \in CoastalBodies, out \in ClassifierOutcomes(ErosionLabels) :
           IF body = Unparsable
           THEN Serve(body, <<>>, {ErrorResponse("/predict/coastal-erosion")})
           ELSE Serve(body,
                      <<[predictor |-> "predict_coastal_erosion"]
                          @@ Collaborator(variant, models_loaded, models, "coastal_erosion",
                                          body.kind = "mapping", out)>>,
                      Replies("/predict/coastal-erosion",
                              predict_coastal_erosion(variant, models_loaded, models, body, out)))

\* the route predict_blue_carbon
PredictBlueCarbonRoute ==
    /\ Idle
    /\ \E body \in EcosystemBodies, out \in ClassifierOutcomes(ThreatLabels) :
           IF body = Unparsable
           THEN Serve(body, <<>>, {ErrorResponse("/predict/blue-carbon")})
           ELSE Serve(body,
                      <<[predictor |-> "predict_blue_carbon_threat"]
                          @@ Collaborator(variant, models_loaded, models, "blue_carbon_threat",
                                          body.kind = "mapping", out)>>,
                      Replies("/predict/blue-carbon",
                              predict_blue_carbon_threat(variant, models_loaded, models, body, out)))

\* the route predict_weather: data.get('historical_data', []) raises in the
\* handler for a body that is no dict
PredictWeatherRoute ==
    /\ Idle
    /\ \E body \in ForecastBodies, out \in ForecastOutcomes :
           IF body.kind # "mapping"
           THEN Serve(body, <<>>, {ErrorResponse("/predict/weather")})
           ELSE LET historical_data == Get(body.data, "historical_data", List(<<>>))
                IN  Serve(body,
                          <<[predictor |-> "predict_weather_sequence"]
                              @@ Collaborator(variant, models_loaded, models, "weather_prediction",
                                              variant = "full" /\ historical_data.kind = "list",
                                              out)
                              @@ WindowSeen(variant, models_loaded, models, historical_data)>>,
                          Replies("/predict/weather",
                                  predict_weather_sequence(variant, models_loaded, models,
                                                           historical_data, out)))

(***************************************************************************)
(* POST /retrain.                                                          *)
(***************************************************************************)
\* train_all_models stores its models one after the other in this order
TrainingOrder == <<"storm_surge", "coastal_erosion", "blue_carbon_threat", "weather_prediction">>

FirstTrained(k) == {TrainingOrder[i] : i \in 1..k}

\* Full variant: trainer.train_all_models() stores k models in the trainer and
\* raises, or stores all four and save_models() raises (the handler answers 500
\* and models_loaded keeps its value); otherwise predictor.load_models() reloads
\* the saved files and sets models_loaded, to False when the reload and the
\* training it falls back to both raise, and the handler answers 200.
\* Simplified variant: train_models() trains in a trainer of its own and then
\* replaces models, scalers and encoders; it never touches models_loaded.
RetrainOutcomes(v, loaded, have) ==
    IF v = "full"
    THEN {[status |-> 500, models_loaded |-> loaded, models |-> have \cup FirstTrained(k),
           replaced |-> k > 0] : k \in 0..Len(TrainingOrder)}
         \cup {[status |-> 200, models_loaded |-> b, models |-> FullModels,
                 replaced |-> TRUE] : b \in BOOLEAN}
    ELSE {[status |-> 500, models_loaded |-> loaded, models |-> have, replaced |-> FALSE],
          [status |-> 200, models_loaded |-> loaded, models |-> SimpleModels,
           replaced |-> TRUE]}

\* the route retrain_models
Retrain ==
    /\ Idle
    /\ \E o \in RetrainOutcomes(variant, models_loaded, models) :
          /\ models_loaded' = o.models_loaded
          /\ models' = o.models
          /\ artefacts' = IF o.replaced THEN "retrain" ELSE artefacts
          /\ response' = IF o.status = 200
                          THEN [route |-> "/retrain", status |-> 200,
                                body |-> [status |-> "success"]]
                          ELSE ErrorResponse("/retrain")
    /\ input_data' = NoResult
    /\ calls' = <<>>
    /\ UNCHANGED <<variant, pc, results, raised, core_in, core_out, raceVars>>

\* what GET /health reports: the flag, and in the simplified variant the names
\* of the models the predictor holds
HealthBody(v, loaded, have) ==
    [status |-> "healthy", models_loaded |-> loaded]
        @@ (IF v = "simple" THEN [available_models |-> have] ELSE <<>>)

\* the route health_check
HealthCheck ==
    /\ Idle
    /\ response' = [route |-> "/health", status |-> 200,
                    body |-> HealthBody(variant, models_loaded, models)]
    /\ input_data' = NoResult
    /\ calls' = <<>>
    /\ UNCHANGED <<variant, models_loaded, models, pc, results, raised, core_in, core_out,
                   artefacts, raceVars>>

\* the response leaves the service; the client sends its next request after it
Deliver ==
    /\ pc = "idle"
    /\ response # NoResult
    /\ response' = NoResult
    /\ input_data' = NoResult
    /\ calls' = <<>>
    /\ UNCHANGED <<variant, models_loaded, models, pc, results, raised, core_in, core_out,
                   artefacts, raceVars>>

Init ==
    /\ variant \in Variants
    /\ \E p \in LoadOutcomes(variant) :
          models_loaded = p.models_loaded /\ models = p.models
    /\ pc = "idle"
    /\ input_data = NoResult
    /\ results = NoResult
    /\ raised = FALSE
    /\ calls = <<>>
    /\ core_in = NoResult
    /\ core_out = NoResult
    /\ response = NoResult
    /\ artefacts = "startup"
    /\ store = NoResult
    /\ trainer = NoResult
    /\ reader = NoResult

Next ==
    \/ Request
    \/ AnalyzeWeather
    \/ AnalyzeCoastal
    \/ AnalyzeEcosystem
    \/ AnalyzeHistory
    \/ Aggregate
    \/ Recommend
    \/ Respond
    \/ PredictStormSurgeRoute
    \/ PredictCoastalErosionRoute
    \/ PredictBlueCarbonRoute
    \/ PredictWeatherRoute
    \/ Retrain
    \/ HealthCheck
    \/ Deliver

Spec == Init /\ [][Next]_vars

(***************************************************************************)
(* Direct calls of the helper functions on arbitrary arguments.            *)
(***************************************************************************)
CategoryKeys == {"storm_surge", "coastal_erosion", "blue_carbon", "weather_forecast"}

RiskLabels == {"low", "medium", "high", "critical"}
ThreatLevelLabels == {"minimal", "moderate", "significant", "severe"}

\* a dict with the key absent, or present with one of the values
Optional(key, values) == {<<>>} \cup {key :> x : x \in values}

\* every result over the four fields the helpers read
AnyResults ==
    {e @@ s @@ r @@ t :
        e \in Optional("error", {PredictionFailed}),
        s \in Optional("surge_height", Heights),
        r \in Optional("risk_level", RiskLabels \cup {"moderate", "other"}),
        t \in Optional("threat_level", ThreatLevelLabels \cup {"high", "other"})}

\* per category: the shapes its predictor returns, and one result that is off shape
LikelyResults(key) ==
    CASE key = "storm_surge" ->
            {[surge_height |-> h, risk_level |-> _categorize_surge_risk(h)] : h \in {0, 2, 3, 4, 5}}
            \cup {[error |-> PredictionFailed, surge_height |-> 0], [risk_level |-> "critical"]}
      [] key = "coastal_erosion" ->
            {[risk_level |-> l] : l \in RiskLabels \cup {"other"}}
            \cup {[error |-> PredictionFailed, risk_level |-> "unknown"]}
      [] key = "blue_carbon" ->
            {[threat_level |-> l] : l \in ThreatLevelLabels}
            \cup {[error |-> PredictionFailed, threat_level |-> "unknown"],
                  [risk_level |-> "low", threat_level |-> "severe"]}
      [] key = "weather_forecast" ->
            {[confidence |-> 800], [error |-> PredictionFailed],
             [error |-> PredictionFailed, surge_height |-> 6, risk_level |-> "critical",
              threat_level |-> "severe"]}

\* the caller's mapping so far holds only results of the shapes the predictors return
AllLikely(threats) ==
    \A i \in 1..Len(threats) : threats[i].data \in LikelyResults(threats[i].key)

\* the results the caller may store next: anything as the only entry of the
\* mapping, a likely result next to other likely results
NextResults(threats, key) ==
    IF threats = <<>> THEN AnyResults \cup LikelyResults(key)
    ELSE IF AllLikely(threats) THEN LikelyResults(key)
    ELSE {}

KeysOf(threats) == {threats[i].key : i \in 1..Len(threats)}

\* the caller stores one more category result in the mapping it is going to pass
Supply ==
    /\ pc = "call"
    /\ "threats" \in DOMAIN core_in
    /\ \E key \in CategoryKeys \ KeysOf(core_in.threats) :
          \E data \in NextResults(core_in.threats, key) :
             core_in' = [core_in EXCEPT !.threats = Append(@, [key |-> key, data |-> data])]
    /\ UNCHANGED <<variant, models_loaded, models, pc, input_data, results, raised,
                   calls, core_out, response, artefacts, raceVars>>

\* the ecosystem dicts handed to the estimator
EcosystemData == {<<>>} \cup {[carbon_storage |-> c] : c \in CarbonStorages}

CoreCalls ==
    {[fn |-> "_categorize_surge_risk", surge_height |-> h] : h \in Heights}
    \cup {[fn |-> "_calculate_overall_risk", threats |-> <<>>],
          [fn |-> "_generate_recommendations", threats |-> <<>>]}
    \cup {[fn |-> "_estimate_carbon_loss", threat_level |-> l, ecosystem_data |-> d] :
            l \in ThreatLabels \cup {"high"}, d \in EcosystemData}

Returned(value) ==
    /\ core_out' = value
    /\ pc' = "returned"
    /\ UNCHANGED <<variant, models_loaded, models, input_data, results, raised, calls,
                   core_in, response, artefacts, raceVars>>

CallCategorize ==
    /\ pc = "call"
    /\ core_in.fn = "_categorize_surge_risk"
    /\ Returned(_categorize_surge_risk(core_in.surge_height))

CallOverallRisk ==
    /\ pc = "call"
    /\ core_in.fn = "_calculate_overall_risk"
    /\ Returned(_calculate_overall_risk(core_in.threats))

CallRecommendations ==
    /\ pc = "call"
    /\ core_in.fn = "_generate_recommendations"
    /\ Returned(_generate_recommendations(variant, core_in.threats))

\* core_out is [raises |-> TRUE] when the estimator raised
CallEstimate ==
    /\ pc = "call"
    /\ core_in.fn = "_estimate_carbon_loss"
    /\ Returned(_estimate_carbon_loss(core_in.threat_level, core_in.ecosystem_data))

InitCore ==
    /\ variant \in Variants
    /\ models_loaded = FALSE
    /\ models = {}
    /\ pc = "call"
    /\ input_data = NoResult
    /\ results = NoResult
    /\ raised = FALSE
    /\ calls = <<>>
    /\ core_in \in CoreCalls
    /\ core_out = NoResult
    /\ response = NoResult
    /\ artefacts = "startup"
    /\ store = NoResult
    /\ trainer = NoResult
    /\ reader = NoResult

NextCore == Supply \/ CallCategorize \/ CallOverallRisk \/ CallRecommendations \/ CallEstimate

SpecCore == InitCore /\ [][NextCore]_vars

(***************************************************************************)
(* Properties.  The rank table, the thresholds and the recommendation      *)
(* rules are restated here as the specification words them.                *)
(***************************************************************************)
Elements(seq) == {seq[i] : i \in 1..Len(seq)}

RankOfLabel(label) ==
    CASE label \in {"low", "minimal"} -> 1
      [] label \in {"medium", "moderate"} -> 2
      [] label \in {"high", "significant"} -> 3
      [] label \in {"critical", "severe"} -> 4
      [] OTHER -> 2

ErrorFree(d) == "error" \notin DOMAIN d

\* an error-free result with a label: the results that yield a rank
Ranked(d) == ErrorFree(d) /\ ("risk_level" \in DOMAIN d \/ "threat_level" \in DOMAIN d)

RankOfResult(d) ==
    RankOfLabel(IF "risk_level" \in DOMAIN d THEN d.risk_level ELSE d.threat_level)

RankedEntries(threats) == {i \in 1..Len(threats) : Ranked(threats[i].data)}

RECURSIVE RankSum(_, _)
RankSum(threats, idx) ==
    IF idx = {} THEN 0
    ELSE LET i == CHOOSE j \in idx : TRUE
         IN  RankOfResult(threats[i].data) + RankSum(threats, idx \ {i})

\* the label of the arithmetic mean of the ranks: mean < 1.5, < 2.5, < 3.5, else
MeanRiskLabel(threats) ==
    LET n == Cardinality(RankedEntries(threats))
        total == RankSum(threats, RankedEntries(threats))
    IN  IF n = 0 THEN "unknown"
        ELSE IF 2 * total < 3 * n THEN "low"
        ELSE IF 2 * total < 5 * n THEN "medium"
        ELSE IF 2 * total < 7 * n THEN "high"
        ELSE "critical"

ReturnedFrom(fn) == pc = "returned" /\ core_in.fn = fn

\* three error-free results whose ranks are 3, 3 and 1, in this order
HighHighLow(threats) ==
    /\ Len(threats) = 3
    /\ \A i \in 1..3 : Ranked(threats[i].data)
    /\ <<RankOfResult(threats[1].data), RankOfResult(threats[2].data),
         RankOfResult(threats[3].data)>> = <<3, 3, 1>>

\* C1: _calculate_overall_risk returns "unknown" when no error-free result
\* carries a label, and otherwise the label of the arithmetic mean of the ranks
\* of the error-free labelled results (risk_level before threat_level, 2 for an
\* unrecognized label): low below 1.5, medium below 2.5, high below 3.5, else
\* critical.
C1_OverallRiskIsMeanOfRanks ==
    ReturnedFrom("_calculate_overall_risk") => core_out = MeanRiskLabel(core_in.threats)

\* two at critical and one at low: the mean (3) gives high where the maximum is
\* critical, next to an errored result that is left out
C1_Witness ==
    /\ ReturnedFrom("_calculate_overall_risk")
    /\ Len(core_in.threats) = 4
    /\ \E i, j, k, l \in 1..4 :
          /\ Cardinality({i, j, k, l}) = 4
          /\ ~ErrorFree(core_in.threats[i].data)
          /\ Ranked(core_in.threats[j].data) /\ RankOfResult(core_in.threats[j].data) = 4
          /\ Ranked(core_in.threats[k].data) /\ RankOfResult(core_in.threats[k].data) = 4
          /\ Ranked(core_in.threats[l].data) /\ RankOfResult(core_in.threats[l].data) = 1
    /\ core_out = "high"

\* C2 as stated: ranks [3,3,1] give "high".
C2_HighHighLowGivesHigh ==
    (ReturnedFrom("_calculate_overall_risk") /\ HighHighLow(core_in.threats))
        => core_out = "high"

\* C2, amended: three error-free results with ranks [3,3,1] (mean 2.33) give
\* "medium".
C2_HighHighLowGivesMedium ==
    (ReturnedFrom("_calculate_overall_risk") /\ HighHighLow(core_in.threats))
        => core_out = "medium"

C2_Witness ==
    /\ ReturnedFrom("_calculate_overall_risk")
    /\ HighHighLow(core_in.threats)
    /\ core_in.threats[3].key = "blue_carbon"

WithoutErrors(threats) == SelectSeq(threats, LAMBDA e : ErrorFree(e.data))

\* C3: for every mapping, the overall risk and the recommendation list are those
\* of the mapping with its errored entries removed, whatever the errored entries
\* carry.
C3_ErroredEntriesAreAbsent ==
    /\ ReturnedFrom("_calculate_overall_risk")
          => core_out = _calculate_overall_risk(WithoutErrors(core_in.threats))
    /\ ReturnedFrom("_generate_recommendations")
          => core_out = _generate_recommendations(variant, WithoutErrors(core_in.threats))

\* an errored entry that carries a critical label and a surge height, next to an
\* error-free entry at low
C3_Witness ==
    /\ ReturnedFrom("_calculate_overall_risk")
    /\ \E i, j \in 1..Len(core_in.threats) :
          /\ ~ErrorFree(core_in.threats[i].data)
          /\ "risk_level" \in DOMAIN core_in.threats[i].data
          /\ core_in.threats[i].data.risk_level = "critical"
          /\ "surge_height" \in DOMAIN core_in.threats[i].data
          /\ ErrorFree(core_in.threats[j].data)
    /\ core_out = "low"

Returns == pc = "done"

\* C4: comprehensive_threat_analysis never raises: whatever the request body is,
\* it returns a dict with timestamp, overall_risk, confidence and threats, and
\* when the try block did not reach its end the dict carries a top-level error.
C4_AnalysisNeverRaises ==
    Returns =>
        /\ ~raised
        /\ {"timestamp", "overall_risk", "confidence", "threats"} \subseteq DOMAIN results
        /\ (\/ input_data.kind \in {"null", "number"}
            \/ (input_data.kind = "list"
                /\ \E s \in SectionNames : s \in Elements(input_data.items))
            \/ "recommendations" \notin DOMAIN results)
              => "error" \in DOMAIN results

C4_Witness ==
    /\ Returns
    /\ input_data.kind = "list"
    /\ "error" \in DOMAIN results
    /\ ~raised

\* C5: when the model collaborator of every invoked predictor raised, every
\* entry of threats has error set, overall_risk is "unknown" and the analysis
\* has no top-level error.
C5_ComponentFailureStaysInComponent ==
    (/\ Returns
     /\ calls # <<>>
     /\ \A i \in 1..Len(calls) : calls[i].collaborator = "raised")
        => /\ Len(results.threats) = Len(calls)
           /\ \A i \in 1..Len(results.threats) : ~ErrorFree(results.threats[i].data)
           /\ results.overall_risk = "unknown"
           /\ "error" \notin DOMAIN results

\* only `ecosystem` present and the blue-carbon model raising
C5_Witness ==
    /\ Returns
    /\ input_data.kind = "mapping"
    /\ DOMAIN input_data.data = {"ecosystem"}
    /\ calls = <<[predictor |-> "predict_blue_carbon_threat", collaborator |-> "raised"]>>
    /\ ~ErrorFree(results.threats[1].data)

CategoryOfSection(section) ==
    CASE section = "weather" -> "storm_surge"
      [] section = "coastal" -> "coastal_erosion"
      [] section = "ecosystem" -> "blue_carbon"
      [] section = "historical_weather" -> "weather_forecast"

\* C6: the key set of threats in a returned analysis is exactly the image of the
\* sections present in the request.
C6_ThreatKeysAreThePresentSections ==
    (Returns /\ input_data.kind = "mapping")
        => KeysOf(results.threats) = {CategoryOfSection(s) : s \in DOMAIN input_data.data}

\* two of the four sections present, one of them answered with an error result
C6_Witness ==
    /\ Returns
    /\ input_data.kind = "mapping"
    /\ DOMAIN input_data.data = {"coastal", "historical_weather"}
    /\ \E i \in 1..2 : ~ErrorFree(results.threats[i].data)
    /\ \E i \in 1..2 : ErrorFree(results.threats[i].data)

\* the error-free result stored under a category key, if there is one
Usable(threats, key) ==
    {threats[i].data : i \in {j \in 1..Len(threats) :
                                threats[j].key = key /\ ErrorFree(threats[j].data)}}

FieldOr(d, k, default) == IF k \in DOMAIN d THEN d[k] ELSE default

CategoryStrings ==
    {RecSurgeWarning, RecSurgeTeams, RecSurgeMonitor, RecErosionProtect,
     RecErosionRestrict, RecCarbonProtect, RecCarbonTeam}

\* C7: the evacuation warning iff an error-free storm_surge result has
\* surge_height > 1.0, "monitor closely" iff 0.5 < surge_height <= 1.0 (a missing
\* height counting as 0), the protective measures iff an error-free
\* coastal_erosion result is high or critical, the protection protocols iff an
\* error-free blue_carbon result is significant or severe; other keys emit nothing.
C7_RecommendationRules ==
    ReturnedFrom("_generate_recommendations") =>
        LET recs == Elements(core_out)
            threats == core_in.threats
        IN  /\ RecSurgeWarning \in recs
                 <=> \E d \in Usable(threats, "storm_surge") : FieldOr(d, "surge_height", 0) > 4
            /\ RecSurgeMonitor \in recs
                 <=> \E d \in Usable(threats, "storm_surge") :
                        FieldOr(d, "surge_height", 0) > 2 /\ FieldOr(d, "surge_height", 0) <= 4
            /\ ~(RecSurgeWarning \in recs /\ RecSurgeMonitor \in recs)
            /\ RecErosionProtect \in recs
                 <=> \E d \in Usable(threats, "coastal_erosion") :
                        FieldOr(d, "risk_level", "low") \in {"high", "critical"}
            /\ RecCarbonProtect \in recs
                 <=> \E d \in Usable(threats, "blue_carbon") :
                        FieldOr(d, "threat_level", "minimal") \in {"significant", "severe"}
            /\ (KeysOf(threats) \cap {"storm_surge", "coastal_erosion", "blue_carbon"} = {})
                 => recs \cap CategoryStrings = {}

\* a storm surge of exactly 1.0 m: "monitor closely", no warning
C7_Witness ==
    /\ ReturnedFrom("_generate_recommendations")
    /\ \E d \in Usable(core_in.threats, "storm_surge") :
          "surge_height" \in DOMAIN d /\ d.surge_height = 4
    /\ RecSurgeMonitor \in Elements(core_out)

CategoryOfString(rec) ==
    CASE rec \in {RecSurgeWarning, RecSurgeTeams, RecSurgeMonitor} -> 1
      [] rec \in {RecErosionProtect, RecErosionRestrict} -> 2
      [] rec \in {RecCarbonProtect, RecCarbonTeam} -> 3
      [] OTHER -> 0

\* C8: in every analysis the orchestrator produces, the storm-surge
\* recommendations precede the coastal-erosion ones, which precede the
\* blue-carbon ones.
C8_RecommendationsInInsertionOrder ==
    (Returns /\ "recommendations" \in DOMAIN results) =>
        \A i, j \in 1..Len(results.recommendations) :
            i < j => CategoryOfString(results.recommendations[i])
                        <= CategoryOfString(results.recommendations[j])

\* a surge above 1.0 m with coastal erosion at critical: the warning comes first
C8_Witness ==
    /\ Returns
    /\ "recommendations" \in DOMAIN results
    /\ Len(results.recommendations) >= 2
    /\ results.recommendations[1] = RecSurgeWarning
    /\ RecErosionProtect \in Elements(results.recommendations)
    /\ \E i \in 1..Len(results.threats) :
          /\ results.threats[i].key = "coastal_erosion"
          /\ results.threats[i].data.risk_level = "critical"

\* the thresholds of the categorizer in quarter-metres: 0.5, 1.0 and 2.0 belong
\* to the higher label
SurgeLabel(x) ==
    CASE x < 2 -> "low"
      [] 2 <= x /\ x < 4 -> "medium"
      [] 4 <= x /\ x < 8 -> "high"
      [] x >= 8 -> "critical"

\* C9: _categorize_surge_risk maps x to low when x < 0.5 (every negative x too),
\* medium when 0.5 <= x < 1.0, high when 1.0 <= x < 2.0, critical when x >= 2.0.
C9_CategorizerThresholds ==
    ReturnedFrom("_categorize_surge_risk") => core_out = SurgeLabel(core_in.surge_height)

\* the boundary 1.0 m belongs to high
C9_Witness ==
    /\ ReturnedFrom("_categorize_surge_risk")
    /\ core_in.surge_height = 4
    /\ core_out = "high"

\* C10: in every successful storm-surge result, risk_level is the categorizer's
\* label of the surge_height the same result reports.
C10_SurgeLabelMatchesReportedHeight ==
    (pc \in {"coastal", "ecosystem", "historical_weather", "aggregate", "recommend", "done"}
     /\ "threats" \in DOMAIN results) =>
        \A d \in Usable(results.threats, "storm_surge") :
            d.risk_level = SurgeLabel(d.surge_height)

\* the simplified variant with the model answering a negative height: it reports
\* the height clamped to 0
C10_Witness ==
    /\ variant = "simple"
    /\ Returns
    /\ calls # <<>>
    /\ calls[1] = [predictor |-> "predict_storm_surge", collaborator |-> "returned",
                   value |-> 0 - 1]
    /\ \E d \in Usable(results.threats, "storm_surge") :
          d.surge_height = 0 /\ d.risk_level = "low"

\* the loss rate of a threat level, in thousandths
RateOfLevel(label) ==
    CASE label = "minimal" -> 50
      [] label = "moderate" -> 150
      [] label = "significant" -> 350
      [] label = "severe" -> 600
      [] OTHER -> 250

\* the carbon_storage the estimator is given is a number, or the key is missing
StorageUsable(d) == "carbon_storage" \in DOMAIN d => d.carbon_storage.num

\* tons of stored carbon, 100 when the key is missing
StorageOf(d) == IF "carbon_storage" \in DOMAIN d THEN d.carbon_storage.val ELSE 100

\* C11: for a numeric or missing carbon_storage, _estimate_carbon_loss returns
\* potential_loss_tons_co2 = carbon_storage x rate (0.05, 0.15, 0.35, 0.60 for
\* minimal, moderate, significant, severe, 0.25 for any other label, 100 tons
\* when the key is missing), economic_value_usd = 50 x the loss and
\* recovery_time_years = the loss / 10.
C11_CarbonLossEstimate ==
    (ReturnedFrom("_estimate_carbon_loss") /\ StorageUsable(core_in.ecosystem_data)) =>
        /\ ~core_out.raises
        /\ DOMAIN core_out.value
              = {"potential_loss_tons_co2", "economic_value_usd", "recovery_time_years"}
        /\ core_out.value.potential_loss_tons_co2
              = StorageOf(core_in.ecosystem_data) * RateOfLevel(core_in.threat_level)
        /\ core_out.value.economic_value_usd = 50 * core_out.value.potential_loss_tons_co2
        /\ 10 * core_out.value.recovery_time_years = core_out.value.potential_loss_tons_co2

\* severe with the key missing: 60 tons, 3000 dollars, 6 years
C11_Witness ==
    /\ ReturnedFrom("_estimate_carbon_loss")
    /\ core_in.threat_level = "severe"
    /\ core_in.ecosystem_data = <<>>
    /\ core_out = [raises |-> FALSE,
                   value |-> [potential_loss_tons_co2 |-> 60000,
                              economic_value_usd |-> 3000000,
                              recovery_time_years |-> 6000]]

\* a blue-carbon request the model answered: the body is a dict and the
\* classifier returned its label and its probabilities
BlueCarbonAnswered ==
    /\ response # NoResult
    /\ response.route = "/predict/blue-carbon"
    /\ response.status = 200
    /\ Len(calls) = 1
    /\ calls[1].predictor = "predict_blue_carbon_threat"
    /\ calls[1].collaborator = "returned"

\* C12 as stated: with carbon_storage missing or present but not a number, the
\* blue-carbon result of an answered request carries the carbon_loss_estimate
\* computed from the default base of 100 tons, and no error.
C12_EstimatorNeverFails ==
    (/\ BlueCarbonAnswered
     /\ \/ "carbon_storage" \notin DOMAIN input_data.data
        \/ ~input_data.data.carbon_storage.num) =>
        /\ "error" \notin DOMAIN response.body
        /\ "carbon_loss_estimate" \in DOMAIN response.body
        /\ response.body.carbon_loss_estimate.potential_loss_tons_co2
              = 100 * RateOfLevel(response.body.threat_level)

\* the mapping without the entry of a key
WithoutKey(threats, key) == SelectSeq(threats, LAMBDA e : e.key # key)

\* the analysis reached its end: the aggregator and the generator have run
Completed == Returns /\ "recommendations" \in DOMAIN results

\* C13: in every completed analysis the overall risk and the recommendation
\* list are those of the mapping without its weather_forecast entry, whether
\* the forecast succeeded or failed; an analysis whose only entry is
\* weather_forecast has overall_risk "unknown".
C13_ForecastNeverCounts ==
    Completed =>
        /\ results.overall_risk
              = _calculate_overall_risk(WithoutKey(results.threats, "weather_forecast"))
        /\ results.recommendations
              = _generate_recommendations(variant, WithoutKey(results.threats, "weather_forecast"))
        /\ KeysOf(results.threats) = {"weather_forecast"} => results.overall_risk = "unknown"

\* a successful forecast as the only entry
C13_Witness ==
    /\ Completed
    /\ Len(results.threats) = 1
    /\ results.threats[1].key = "weather_forecast"
    /\ ErrorFree(results.threats[1].data)
    /\ Len(results.threats[1].data.predictions) = ForecastHours
    /\ results.overall_risk = "unknown"

\* the label of the same rank in the other vocabulary
Counterpart(label) ==
    CASE label = "low" -> "minimal"
      [] label = "medium" -> "moderate"
      [] label = "high" -> "significant"
      [] label = "critical" -> "severe"
      [] label = "minimal" -> "low"
      [] label = "moderate" -> "medium"
      [] label = "significant" -> "high"
      [] label = "severe" -> "critical"
      [] OTHER -> label

\* the result with its labels replaced by their counterparts
CounterpartResult(d) ==
    [k \in DOMAIN d |-> IF k \in {"risk_level", "threat_level"} THEN Counterpart(d[k]) ELSE d[k]]

\* the mapping with the labels of the entries in `idx` replaced
WithCounterparts(threats, idx) ==
    [i \in 1..Len(threats) |->
        IF i \in idx THEN [key |-> threats[i].key, data |-> CounterpartResult(threats[i].data)]
        ELSE threats[i]]

\* the labels the results of a mapping carry
LabelsIn(threats) ==
    UNION {{threats[i].data[k] : k \in DOMAIN threats[i].data \cap {"risk_level", "threat_level"}} :
            i \in 1..Len(threats)}

\* C14: the rank table gives low/minimal 1, medium/moderate 2, high/significant
\* 3, critical/severe 4 and any other label 2, and replacing the labels of any
\* set of categories by their counterparts in the other vocabulary leaves the
\* overall risk unchanged.
C14_VocabulariesRankForRank ==
    ReturnedFrom("_calculate_overall_risk") =>
        /\ \A l \in LabelsIn(core_in.threats) :
              /\ Get(risk_scores, l, 2) = RankOfLabel(l)
              /\ Get(risk_scores, Counterpart(l), 2) = Get(risk_scores, l, 2)
        /\ \A idx \in SUBSET (1..Len(core_in.threats)) :
              _calculate_overall_risk(WithCounterparts(core_in.threats, idx)) = core_out

\* erosion at low next to blue carbon at severe: high, as for low with critical
C14_Witness ==
    /\ ReturnedFrom("_calculate_overall_risk")
    /\ Len(core_in.threats) = 2
    /\ \E i, j \in 1..2 :
          /\ core_in.threats[i] = [key |-> "coastal_erosion", data |-> [risk_level |-> "low"]]
          /\ core_in.threats[j] = [key |-> "blue_carbon", data |-> [threat_level |-> "severe"]]
    /\ core_out = "high"

\* a category rule fires on the mapping
RuleFires(threats) ==
    \/ \E d \in Usable(threats, "storm_surge") : FieldOr(d, "surge_height", 0) > 2
    \/ \E d \in Usable(threats, "coastal_erosion") :
          FieldOr(d, "risk_level", "low") \in {"high", "critical"}
    \/ \E d \in Usable(threats, "blue_carbon") :
          FieldOr(d, "threat_level", "minimal") \in {"significant", "severe"}

\* C16: when no category rule fires the simplified variant returns the single
\* fallback and the full variant the empty list; the simplified list is never
\* empty, and the fallback appears only as the sole element and never in the
\* full variant.
C16_FallbackRecommendation ==
    ReturnedFrom("_generate_recommendations") =>
        /\ (variant = "simple" /\ ~RuleFires(core_in.threats)) => core_out = <<RecRoutine>>
        /\ (variant = "full" /\ ~RuleFires(core_in.threats)) => core_out = <<>>
        /\ variant = "simple" => core_out # <<>>
        /\ RecRoutine \in Elements(core_out) => (variant = "simple" /\ core_out = <<RecRoutine>>)
        /\ RuleFires(core_in.threats) => Elements(core_out) \cap CategoryStrings # {}

\* the simplified variant with a surge of exactly 0.5 m and erosion at medium:
\* categories are present, no rule fires
C16_Witness ==
    /\ ReturnedFrom("_generate_recommendations")
    /\ variant = "simple"
    /\ \E d \in Usable(core_in.threats, "storm_surge") :
          "surge_height" \in DOMAIN d /\ d.surge_height = 2
    /\ \E d \in Usable(core_in.threats, "coastal_erosion") :
          "risk_level" \in DOMAIN d /\ d.risk_level = "medium"
    /\ core_out = <<RecRoutine>>

CategoryPredictors ==
    {"predict_storm_surge", "predict_coastal_erosion", "predict_blue_carbon_threat"}

CategoryRoutes == {"/predict/storm-surge", "/predict/coastal-erosion", "/predict/blue-carbon"}

\* the primary field of a category predictor and the sentinel it reports on failure
PrimaryField(predictor) ==
    CASE predictor = "predict_storm_surge" -> "surge_height"
      [] predictor = "predict_coastal_erosion" -> "risk_level"
      [] predictor = "predict_blue_carbon_threat" -> "threat_level"

SentinelResult(predictor) ==
    CASE predictor = "predict_storm_surge" -> [surge_height |-> 0]
      [] predictor = "predict_coastal_erosion" -> [risk_level |-> "unknown"]
      [] predictor = "predict_blue_carbon_threat" -> [threat_level |-> "unknown"]

\* an error string next to the sentinel and nothing else
FailureResult(predictor, r) ==
    /\ DOMAIN r = {"error", PrimaryField(predictor)}
    /\ r[PrimaryField(predictor)] = SentinelResult(predictor)[PrimaryField(predictor)]

\* what C15 says of one invocation: what the model collaborator did, and the
\* result the predictor returned
ResultFitsCall(call, result) ==
    /\ call.collaborator \in {"not_called", "raised"} => FailureResult(call.predictor, result)
    /\ "error" \in DOMAIN result => FailureResult(call.predictor, result)
    /\ "error" \notin DOMAIN result => "confidence" \in DOMAIN result

\* the response of a prediction route carries the result of a category predictor
RouteInvocation ==
    /\ response # NoResult
    /\ response.route \in CategoryRoutes
    /\ response.status = 200
    /\ Len(calls) = 1

\* the category predictors the orchestration pass has invoked so far
PassInvocations ==
    IF "threats" \in DOMAIN results
    THEN {i \in 1..Len(calls) : calls[i].predictor \in CategoryPredictors}
    ELSE {}

\* C15: a category predictor whose model is unavailable, or whose feature
\* preparation or model raises, returns the error string with its sentinel
\* (surge_height 0, risk_level "unknown", threat_level "unknown") and no
\* confidence; a result with an error carries nothing else, a result without
\* one carries a confidence; and with a dict as request body no exception of a
\* predictor reaches the orchestrator.
C15_PredictorsNeverRaise ==
    /\ RouteInvocation => ResultFitsCall(calls[1], response.body)
    /\ \A i \in PassInvocations : ResultFitsCall(calls[i], results.threats[i].data)
    /\ (Returns /\ input_data.kind = "mapping") => (~raised /\ "error" \notin DOMAIN results)

\* the coastal-erosion route with the model raising
C15_Witness ==
    /\ response # NoResult
    /\ response.route = "/predict/coastal-erosion"
    /\ calls = <<[predictor |-> "predict_coastal_erosion", collaborator |-> "raised"]>>
    /\ response.status = 200
    /\ response.body = [error |-> PredictionFailed, risk_level |-> "unknown"]

\* C18 as stated: once startup has established them, no request changes the
\* model set, the scalers and encoders or the models_loaded flag, so every
\* prediction request observes the ones of startup.
C18_SharedStateFixedAtStartup ==
    [][/\ models' = models
       /\ models_loaded' = models_loaded
       /\ artefacts' = artefacts]_vars

PredictionRoutes == CategoryRoutes \cup {"/predict/weather"}

\* a successful result carries a confidence between 0 and 1 (in thousandths)
ConfidenceInRange(r) ==
    "error" \notin DOMAIN r => ("confidence" \in DOMAIN r /\ r.confidence \in 0..1000)

\* C19 as stated: every successful prediction result, returned by a prediction
\* route or stored by the orchestrator, has a confidence in [0, 1], whatever
\* numeric wind_speed the request carries.
C19_ConfidenceInUnitInterval ==
    /\ (/\ response # NoResult
        /\ response.route \in PredictionRoutes
        /\ response.status = 200) => ConfidenceInRange(response.body)
    /\ "threats" \in DOMAIN results =>
          \A i \in 1..Len(results.threats) : ConfidenceInRange(results.threats[i].data)

\* C20 as stated: every response whose body carries a top-level error has status
\* 500, whether the handler raised or a predictor or the orchestrator reported
\* the error in the result it returned.
C20_ErrorBodyMeansStatus500 ==
    (response # NoResult /\ "error" \in DOMAIN response.body) => response.status = 500

\* a successful forecast: 24 points with hour_offset 1, 2, ..., 24
FullDayForecast(r) ==
    "error" \notin DOMAIN r =>
        /\ "predictions" \in DOMAIN r
        /\ Len(r.predictions) = 24
        /\ \A i \in 1..Len(r.predictions) : r.predictions[i].hour_offset = i

SectionOrder == <<"weather", "coastal", "ecosystem", "historical_weather">>

PredictorOfSection(section) ==
    CASE section = "weather" -> "predict_storm_surge"
      [] section = "coastal" -> "predict_coastal_erosion"
      [] section = "ecosystem" -> "predict_blue_carbon_threat"
      [] section = "historical_weather" -> "predict_weather_sequence"

\* the sections present in the request body
PresentSections(input) == IF input.kind = "mapping" THEN DOMAIN input.data ELSE {}

\* the present sections in the fixed order
PresentInOrder(input) == SelectSeq(SectionOrder, LAMBDA x : x \in PresentSections(input))

\* the predictors a complete pass invokes, in order
ExpectedInvocations(input) ==
    [i \in 1..Len(PresentInOrder(input)) |-> PredictorOfSection(PresentInOrder(input)[i])]

\* the predictors the pass has invoked so far, in order
InvokedSoFar == [i \in 1..Len(calls) |-> calls[i].predictor]

IsPrefix(a, b) == Len(a) <= Len(b) /\ a = SubSeq(b, 1, Len(a))

InPass == pc \in {"weather", "coastal", "ecosystem", "historical_weather", "aggregate",
                  "recommend", "done"}

\* C22: at every point of a pass the predictors invoked so far are a prefix of
\* the predictors of the present sections in the order weather, coastal,
\* ecosystem, historical_weather (each once, none of an absent section); when the
\* aggregator runs all of them have returned and their results are stored under
\* their keys in this order; the generator runs after the aggregator; and the
\* overall risk and the recommendations returned are those of the mapping
\* returned as threats.
C22_PassOrder ==
    /\ InPass => IsPrefix(InvokedSoFar, ExpectedInvocations(input_data))
    /\ (pc \in {"aggregate", "recommend"} \/ Completed) =>
          /\ InvokedSoFar = ExpectedInvocations(input_data)
          /\ [i \in 1..Len(results.threats) |-> results.threats[i].key]
                = [i \in 1..Len(PresentInOrder(input_data)) |->
                      CategoryOfSection(PresentInOrder(input_data)[i])]
    /\ pc = "aggregate" => "recommendations" \notin DOMAIN results
    /\ (pc = "recommend" \/ Completed) =>
          results.overall_risk = _calculate_overall_risk(results.threats)
    /\ pc = "recommend" => "recommendations" \notin DOMAIN results
    /\ Completed =>
          results.recommendations = _generate_recommendations(variant, results.threats)

\* weather and ecosystem present, coastal and history absent
C22_Witness ==
    /\ Completed
    /\ PresentSections(input_data) = {"weather", "ecosystem"}
    /\ InvokedSoFar = <<"predict_storm_surge", "predict_blue_carbon_threat">>
    /\ results.threats[2].key = "blue_carbon"

\* C23: a pass that ends in the except clause returns the analysis with
\* overall_risk still "low", without recommendations, with the threats stored up
\* to the exception and with the top-level error; a pass that ends without a
\* top-level error returns recommendations and the overall risk of its threats.
C23_PartialResultOnException ==
    [][(pc # "done" /\ pc' = "done") =>
          IF "error" \in DOMAIN results'
          THEN /\ results'.overall_risk = "low"
               /\ "recommendations" \notin DOMAIN results'
               /\ results'.threats = results.threats
               /\ ~raised'
          ELSE /\ "recommendations" \in DOMAIN results'
               /\ results'.overall_risk = _calculate_overall_risk(results'.threats)]_vars

\* the body is the list ["coastal"]: the weather section is skipped, then
\* input_data['coastal'] raises
C23_Witness ==
    /\ Returns
    /\ input_data = List(<<"coastal">>)
    /\ "error" \in DOMAIN results
    /\ results.overall_risk = "low"
    /\ "recommendations" \notin DOMAIN results

\* C24: in every completed analysis a successful storm_surge result labelled
\* high or critical has the evacuation warning among the recommendations, and
\* one labelled medium has "Monitor coastal conditions closely" among them.
C24_SurgeLabelAgreesWithRecommendation ==
    Completed =>
        \A d \in Usable(results.threats, "storm_surge") :
            /\ d.risk_level \in {"high", "critical"} =>
                  RecSurgeWarning \in Elements(results.recommendations)
            /\ d.risk_level = "medium" =>
                  RecSurgeMonitor \in Elements(results.recommendations)

\* what does hold: label and recommendation agree away from 0.5 m and 1.0 m
C24_AgreementOffTheBoundaries ==
    Completed =>
        \A d \in Usable(results.threats, "storm_surge") :
            d.surge_height \notin {2, 4} =>
                /\ d.risk_level \in {"high", "critical"} =>
                      RecSurgeWarning \in Elements(results.recommendations)
                /\ d.risk_level = "medium" =>
                      RecSurgeMonitor \in Elements(results.recommendations)

\* the field a result's rank is read from
LabelField(d) == IF "risk_level" \in DOMAIN d THEN "risk_level" ELSE "threat_level"

\* the mapping with the label of entry i replaced
Relabel(threats, i, label) ==
    LET d == threats[i].data
    IN  [threats EXCEPT ![i] = [key |-> threats[i].key,
                                data |-> [d EXCEPT ![LabelField(d)] = label]]]

ContributingRanks(threats) ==
    {RankOfResult(threats[i].data) : i \in RankedEntries(threats)}

\* C25: when at least one result contributes a rank, the rank of the overall
\* risk lies between the least and the greatest contributing rank, and replacing
\* the label of one contributing result by a label of the same or a higher rank
\* never gives an overall risk of a lower rank.
C25_OverallRiskBoundedAndMonotone ==
    (ReturnedFrom("_calculate_overall_risk") /\ RankedEntries(core_in.threats) # {}) =>
        /\ \E a \in ContributingRanks(core_in.threats) : a <= RankOfLabel(core_out)
        /\ \E b \in ContributingRanks(core_in.threats) : RankOfLabel(core_out) <= b
        /\ \A i \in RankedEntries(core_in.threats) :
              \A label \in RiskLabels \cup ThreatLevelLabels :
                 RankOfLabel(label) >= RankOfResult(core_in.threats[i].data) =>
                    RankOfLabel(_calculate_overall_risk(Relabel(core_in.threats, i, label)))
                       >= RankOfLabel(core_out)

\* ranks 1 and 3 give medium, strictly between them, and raising the 1 to
\* critical raises the overall risk to critical
C25_Witness ==
    /\ ReturnedFrom("_calculate_overall_risk")
    /\ ContributingRanks(core_in.threats) = {1, 3}
    /\ Cardinality(RankedEntries(core_in.threats)) = 2
    /\ core_out = "medium"
    /\ \E i \in RankedEntries(core_in.threats) :
          /\ RankOfResult(core_in.threats[i].data) = 1
          /\ _calculate_overall_risk(Relabel(core_in.threats, i, "critical")) = "critical"

SecondaryStrings == {RecSurgeTeams, RecErosionRestrict, RecCarbonTeam}

\* a recommendation list without the secondary strings
WithoutSecondary(recommendations) ==
    SelectSeq(recommendations, LAMBDA r : r \notin SecondaryStrings)

\* ... and with the fallback string when nothing is left
PrimaryOrRoutine(recommendations) ==
    IF WithoutSecondary(recommendations) = <<>> THEN <<RecRoutine>>
    ELSE WithoutSecondary(recommendations)

C27_InputNeverModified ==
    [][(pc \in {"weather", "coastal", "ecosystem", "historical_weather", "aggregate",
                "recommend"}) => (input_data' = input_data)]_vars

\* what does hold: the simplified variant leaves the input alone, and the full
\* variant changes nothing but the historical_weather list
C27_OnlyTheHistoryIsPadded ==
    [][(pc \in {"weather", "coastal", "ecosystem", "historical_weather", "aggregate",
                "recommend"} /\ input_data' # input_data) =>
          /\ variant = "full"
          /\ pc = "historical_weather"
          /\ Len(input_data.data.historical_weather.items) < WindowHours
          /\ Len(input_data'.data.historical_weather.items) = WindowHours
          /\ input_data' = [input_data EXCEPT !.data.historical_weather =
                                input_data'.data.historical_weather]]_vars

HealthReported == response # NoResult /\ response.route = "/health"

\* C28: in the full variant, whenever GET /health reports models_loaded true,
\* after startup or after any sequence of /retrain calls, the trainer holds all
\* four models.
C28_LoadedMeansAllFourModels ==
    (variant = "full" /\ HealthReported) =>
        (response.body.models_loaded => models = FullModels)

\* C29: in the simplified variant GET /health reports models_loaded true
\* exactly when the predictor holds all three models, after startup and after any
\* sequence of /retrain calls.
C29_FlagTracksAvailability ==
    (variant = "simple" /\ HealthReported) =>
        (response.body.models_loaded <=> models = SimpleModels)

\* what does hold in the simplified variant: a true flag means all three models
C29_LoadedMeansAllThreeModels ==
    (variant = "simple" /\ HealthReported) =>
        (response.body.models_loaded => response.body.available_models = SimpleModels)

(***************************************************************************)
(* A prediction served while POST /retrain is served.  The development     *)
(* server answers every request in a thread of its own and the predictor   *)
(* takes no lock: the steps below are the reads of predict_storm_surge and *)
(* the writes of the retraining, one shared dict access each.  An object   *)
(* is identified by the training run that fitted it: 0 for what the        *)
(* startup installed, 1, 2, ... for the POST /retrain requests.            *)
(***************************************************************************)
MaxRuns == 2       \* POST /retrain requests in a behaviour

serviceVars == <<models_loaded, models, pc, input_data, results, raised, calls,
                 core_in, core_out, response, artefacts>>

\* scalers.get('storm_surge_scaler') answering None
NoScaler == 0 - 1

ScalerNames == {"storm_surge_scaler", "coastal_erosion_scaler", "blue_carbon_threat_scaler"}

\* f"{threat_type}_scaler"; the time series of the forecast model is not scaled
ScalerOf(threat_type) ==
    CASE threat_type = "storm_surge" -> "storm_surge_scaler"
      [] threat_type = "coastal_erosion" -> "coastal_erosion_scaler"
      [] threat_type = "blue_carbon_threat" -> "blue_carbon_threat_scaler"

ModelsOf(v) == IF v = "full" THEN FullModels ELSE SimpleModels

\* the dicts after startup: the saved files of an earlier training, or nothing
StartupStores(v) ==
    {[models |-> <<>>, scalers |-> <<>>],
     [models |-> [n \in ModelsOf(v) |-> 0], scalers |-> [n \in ScalerNames |-> 0]]}

NoTraining == [pc |-> "idle", run |-> 0, step |-> 1, models |-> <<>>, scalers |-> <<>>]

NoPrediction == [pc |-> "idle", scaler |-> NoScaler, model |-> NoScaler]

\* d[k] = x
Assign(d, k, x) == (k :> x) @@ d

\* if 'storm_surge' not in self.models: return ...  (the guard passed)
PredictCheck ==
    /\ reader.pc = "idle"
    /\ "storm_surge" \in DOMAIN store.models
    /\ reader' = [reader EXCEPT !.pc = "scaler"]
    /\ UNCHANGED <<variant, serviceVars, store, trainer>>

\* scaler = self.scalers.get('storm_surge_scaler'); features = scaler.transform(features)
ReadScaler ==
    /\ reader.pc = "scaler"
    /\ reader' = [reader EXCEPT !.pc = "model",
                                !.scaler = Get(store.scalers, "storm_surge_scaler", NoScaler)]
    /\ UNCHANGED <<variant, serviceVars, store, trainer>>

\* model = self.models['storm_surge']; surge_height = model.predict(features)[0]
ReadModel ==
    /\ reader.pc = "model"
    /\ reader' = [reader EXCEPT !.pc = "predicted", !.model = store.models["storm_surge"]]
    /\ UNCHANGED <<variant, serviceVars, store, trainer>>

\* return {...}
PredictReturn ==
    /\ reader.pc = "predicted"
    /\ reader' = NoPrediction
    /\ UNCHANGED <<variant, serviceVars, store, trainer>>

\* POST /retrain arrives: the next training run
RetrainBegin ==
    /\ trainer.pc = "idle"
    /\ trainer.run < MaxRuns
    /\ trainer' = [NoTraining EXCEPT !.run = trainer.run + 1,
                                     !.pc = IF variant = "full" THEN "preprocess" ELSE "train"]
    /\ UNCHANGED <<variant, serviceVars, store, reader>>

\* training or saving raised: the handler answers 500
RetrainRaises ==
    /\ trainer.pc \in {"preprocess", "fit", "save", "train"}
    /\ trainer' = [trainer EXCEPT !.pc = "idle"]
    /\ UNCHANGED <<variant, serviceVars, store, reader>>

\* full variant, preprocess_data of predictor.trainer: the scaler of the threat
\* type is created and fitted only when the dict has none, else it is reused
Preprocess ==
    /\ variant = "full"
    /\ trainer.pc = "preprocess"
    /\ LET threat_type == TrainingOrder[trainer.step]
       IN  store' = IF threat_type = "weather_prediction"
                       \/ ScalerOf(threat_type) \in DOMAIN store.scalers
                    THEN store
                    ELSE [store EXCEPT !.scalers = Assign(@, ScalerOf(threat_type), trainer.run)]
    /\ trainer' = [trainer EXCEPT !.pc = "fit"]
    /\ UNCHANGED <<variant, serviceVars, reader>>

\* full variant: self.models[threat_type] = model, at the end of train_..._model
StoreModel ==
    /\ variant = "full"
    /\ trainer.pc = "fit"
    /\ store' = [store EXCEPT !.models = Assign(@, TrainingOrder[trainer.step], trainer.run)]
    /\ trainer' = IF trainer.step < Len(TrainingOrder)
                  THEN [trainer EXCEPT !.pc = "preprocess", !.step = @ + 1]
                  ELSE [trainer EXCEPT !.pc = "save"]
    /\ UNCHANGED <<variant, serviceVars, reader>>

\* full variant: save_models() writes the files and predictor.load_models()
\* reads them back: the same models and scalers, by run
SaveAndReload ==
    /\ variant = "full"
    /\ trainer.pc = "save"
    /\ trainer' = [trainer EXCEPT !.pc = "idle"]
    /\ UNCHANGED <<variant, serviceVars, store, reader>>

\* simplified variant: a trainer of its own trains and saves all three models
\* with scalers it fits itself
TrainOwnTrainer ==
    /\ variant = "simple"
    /\ trainer.pc = "train"
    /\ trainer' = [trainer EXCEPT !.pc = "install_models",
                                  !.models = [n \in SimpleModels |-> trainer.run],
                                  !.scalers = [n \in ScalerNames |-> trainer.run]]
    /\ UNCHANGED <<variant, serviceVars, store, reader>>

\* self.models = trainer.models
InstallModels ==
    /\ variant = "simple"
    /\ trainer.pc = "install_models"
    /\ store' = [store EXCEPT !.models = trainer.models]
    /\ trainer' = [trainer EXCEPT !.pc = "install_scalers"]
    /\ UNCHANGED <<variant, serviceVars, reader>>

\* self.scalers = trainer.scalers; self.encoders = trainer.encoders
InstallScalers ==
    /\ variant = "simple"
    /\ trainer.pc = "install_scalers"
    /\ store' = [store EXCEPT !.scalers = trainer.scalers]
    /\ trainer' = [trainer EXCEPT !.pc = "idle"]
    /\ UNCHANGED <<variant, serviceVars, reader>>

InitRace ==
    /\ variant \in Variants
    /\ models_loaded = TRUE
    /\ models = {}
    /\ pc = "idle"
    /\ input_data = NoResult
    /\ results = NoResult
    /\ raised = FALSE
    /\ calls = <<>>
    /\ core_in = NoResult
    /\ core_out = NoResult
    /\ response = NoResult
    /\ artefacts = "startup"
    /\ store \in StartupStores(variant)
    /\ trainer = NoTraining
    /\ reader = NoPrediction

NextRace ==
    \/ PredictCheck
    \/ ReadScaler
    \/ ReadModel
    \/ PredictReturn
    \/ RetrainBegin
    \/ RetrainRaises
    \/ Preprocess
    \/ StoreModel
    \/ SaveAndReload
    \/ TrainOwnTrainer
    \/ InstallModels
    \/ InstallScalers

SpecRace == InitRace /\ [][NextRace]_vars

\* C30: under every interleaving of a prediction with POST /retrain, the
\* scaler a prediction has applied and the model it has then called were
\* fitted by the same training run.
C30_ScalerAndModelOfOneRun ==
    (reader.pc = "predicted" /\ reader.scaler # NoScaler) => reader.scaler = reader.model

====
